---- MODULE Spec2Model ----
(***************************************************************************)
(* A model of ATFValidator.validate_file (src/tools/validator/validator.py):*)
(* the size guard, the parse, the schema check and the seven semantic      *)
(* rules, with Python's exception flow made explicit; and of               *)
(* FeedManager.compare_feeds (src/tools/feed-manager/manager.py).          *)
(*                                                                         *)
(* A string is a sequence of one-character strings.  An element's .text is *)
(* NoneText (lxml gives None for an empty element) or Str(s).  A document  *)
(* is the sequence of its leaf elements in document order, which is the    *)
(* order doc.findall(".//{*}tag") visits them in.                          *)
(***************************************************************************)
EXTENDS Integers, Sequences, FiniteSets, TLC

VARIABLES
  input,         \* the file validate_file is called on
  pc,            \* the step of validate_file that runs next
  doc,           \* the parsed tree, <<>> before the parse
  errors,        \* validate_file's errors list
  raised,        \* the exception that left validate_file, "none" if none did
  clock,         \* the latest reading of datetime.utcnow()
  nowDates,      \* current_date of _validate_dates, 0 before it runs
  nowRetention,  \* current_date of _validate_retention, 0 before it runs
  mi,            \* _validate_metrics: the metric the loop is at
  seen_metrics,  \* _validate_metrics: name -> set of format types
  merrors,       \* _validate_metrics: its local errors list
  call,          \* the number of the validate_file call on this input
  firstErrors,   \* what the first call on this input returned
  feed1,         \* compare_feeds: the file at feed1_path
  feed2,         \* compare_feeds: the file at feed2_path
  dpc,           \* the step of compare_feeds that runs next
  items1,        \* compare_feeds: the dict _extract_items(feed1) returned
  items2,        \* compare_feeds: the dict _extract_items(feed2) returned
  added,         \* compare_feeds: its added list
  removed,       \* compare_feeds: its removed list
  modified,      \* compare_feeds: its modified list
  draised,       \* the exception that left compare_feeds, "none" if none did
  schema_file,   \* what is found at self.schema_path
  schema,        \* self.schema, "unset" before _load_schema sets it
  cpc,           \* ATFValidator(schema_path): "new", "built" or "failed"
  craised,       \* the exception that left __init__, "none" if none did
  other,         \* the validate_file call of the thread that is not running
  thread         \* the thread that is running

\* the calls of validate_file on one input
calls == <<call, firstErrors>>
\* the state of compare_feeds
differ == <<feed1, feed2, dpc, items1, items2, added, removed, modified, draised>>

\* the validator object and the threads that share it
object == <<schema_file, schema, cpc, craised, other, thread>>

vars == <<input, pc, doc, errors, raised, clock, nowDates, nowRetention,
          mi, seen_metrics, merrors, calls, differ, object>>

(***************************************************************************)
(* Bounds of the model.                                                    *)
(***************************************************************************)
MaxItems == 2
MaxMetrics == 3
MaxTicks == 1
MaxSchemaErrors == 1
UnitsPerDay == 2

(***************************************************************************)
(* Class constants of ATFValidator.                                        *)
(***************************************************************************)
MAX_FEED_SIZE == 10 * 1024 * 1024
MIN_RETENTION_DAYS == 365

ALLOWED_LANGUAGES ==
  { <<"e","n","-","u","s">>, <<"e","n","-","g","b">>, <<"e","s">>,
    <<"f","r">>, <<"d","e">>, <<"z","h">> }

STANDARD_CATEGORIES ==
  { <<"R","a","n","k","i","n","g"," ","A","l","g","o","r","i","t","h","m">>,
    <<"C","o","n","t","e","n","t"," ","M","o","d","e","r","a","t","i","o","n">>,
    <<"R","e","c","o","m","m","e","n","d","a","t","i","o","n"," ","S","y","s","t","e","m">>,
    <<"U","s","e","r"," ","C","l","a","s","s","i","f","i","c","a","t","i","o","n">>,
    <<"P","r","i","v","a","c","y"," ","E","n","h","a","n","c","e","m","e","n","t">>,
    <<"B","i","a","s"," ","M","i","t","i","g","a","t","i","o","n">>,
    <<"M","a","c","h","i","n","e"," ","L","e","a","r","n","i","n","g">>,
    <<"D","a","t","a"," ","P","r","o","c","e","s","s","i","n","g">>,
    <<"S","e","c","u","r","i","t","y">>,
    <<"P","e","r","f","o","r","m","a","n","c","e">> }

(***************************************************************************)
(* Texts and strings.                                                      *)
(***************************************************************************)
NoneText == <<>>
Str(s) == <<s>>
IsNone(text) == text = NoneText
Val(text) == text[1]

Digit == {"0","1","2","3","4","5","6","7","8","9"}
Upper == {"A","B","C","D","E","F","G","H","I","J","K","L","M",
          "N","O","P","Q","R","S","T","U","V","W","X","Y","Z"}
Lower == {"a","b","c","d","e","f","g","h","i","j","k","l","m",
          "n","o","p","q","r","s","t","u","v","w","x","y","z"}
Whitespace == {" ", "\t", "\n", "\r"}

StartsWith(s, p) == Len(s) >= Len(p) /\ SubSeq(s, 1, Len(p)) = p
EndsWith(s, p) == Len(s) >= Len(p) /\ SubSeq(s, Len(s) - Len(p) + 1, Len(s)) = p
Contains(s, c) == \E i \in 1..Len(s) : s[i] = c
Count(s, c) == Cardinality({i \in 1..Len(s) : s[i] = c})

\* str.lower() on the letters of the alphabet used here
LowerOf(c) ==
  CASE c = "T" -> "t" [] c = "R" -> "r" [] c = "U" -> "u" [] c = "E" -> "e"
    [] c = "F" -> "f" [] c = "A" -> "a" [] c = "L" -> "l" [] c = "S" -> "s"
    [] OTHER -> c
LowerStr(s) == [i \in 1..Len(s) |-> LowerOf(s[i])]

(***************************************************************************)
(* The regular expressions, each as a recogniser of the whole string.      *)
(* re's "$" matches at the end of the string and also just before a        *)
(* newline that ends it; pattern.match anchors at the start.               *)
(***************************************************************************)
\* \d+
Digits(s) == Len(s) > 0 /\ \A i \in 1..Len(s) : s[i] \in Digit

\* \d+(\.\d+)?
Decimal(s) ==
  \/ Digits(s)
  \/ \E k \in 2..(Len(s) - 1) :
       /\ s[k] = "."
       /\ Digits(SubSeq(s, 1, k - 1))
       /\ Digits(SubSeq(s, k + 1, Len(s)))

\* [+-]? in front of a pattern P: the strings P is to be tried on
Unsigned(s) ==
  IF Len(s) > 0 /\ s[1] \in {"+", "-"} THEN {s, Tail(s)} ELSE {s}

\* P$ : P on the whole string, or on the string without its final newline
Dollar(s) ==
  IF Len(s) > 0 /\ s[Len(s)] = "\n" THEN {s, SubSeq(s, 1, Len(s) - 1)} ELSE {s}

\* ^\d+(\.\d+)?%$                                   (percentage_pattern)
MatchesPercentagePattern(s) ==
  \E u \in Dollar(s) :
    /\ Len(u) > 1
    /\ u[Len(u)] = "%"
    /\ Decimal(SubSeq(u, 1, Len(u) - 1))

\* ^[+-]?\d+(\.\d+)?%$                              (metric_patterns['percentage'])
MatchesPercentage(s) ==
  \E u \in Dollar(s) : \E v \in Unsigned(u) :
    /\ Len(v) > 1
    /\ v[Len(v)] = "%"
    /\ Decimal(SubSeq(v, 1, Len(v) - 1))

\* a numeric pattern whose sign is not optional
MatchesNumericSignRequired(s) ==
  \E u \in Dollar(s) : Len(u) > 0 /\ u[1] \in {"+", "-"} /\ Decimal(Tail(u))

\* ^[+-]?\d+(\.\d+)?$                               (metric_patterns['numeric'])
MatchesNumeric(s) ==
  \E u \in Dollar(s) : \E v \in Unsigned(u) : Decimal(v)

\* ^\d+:\d+$                                        (metric_patterns['ratio'])
MatchesRatio(s) ==
  \E u \in Dollar(s) : \E k \in 2..(Len(u) - 1) :
    /\ u[k] = ":"
    /\ Digits(SubSeq(u, 1, k - 1))
    /\ Digits(SubSeq(u, k + 1, Len(u)))

DurationUnits == { <<"m","s">>, <<"s">>, <<"m","i","n">>, <<"h">> }

\* ^\d+(\.\d+)?(ms|s|min|h)$                        (metric_patterns['duration'])
MatchesDuration(s) ==
  \E u \in Dollar(s) : \E unit \in DurationUnits :
    /\ EndsWith(u, unit)
    /\ Decimal(SubSeq(u, 1, Len(u) - Len(unit)))

\* ^(true|false)$ with re.I                         (metric_patterns['boolean'])
MatchesBoolean(s) ==
  \E u \in Dollar(s) :
    LowerStr(u) \in { <<"t","r","u","e">>, <<"f","a","l","s","e">> }

(***************************************************************************)
(* Errors.  The code's errors are message strings; an error is modelled by *)
(* the kind of its message, the element it is about, and the text and (for *)
(* a metric) the name the message quotes.                                  *)
(***************************************************************************)
Error(kind, field, name, text) ==
  [kind |-> kind, field |-> field, name |-> name, text |-> text]

SizeError == Error("SIZE_EXCEEDED", "file", NoneText, NoneText)
SchemaError == Error("SCHEMA", "document", NoneText, NoneText)
\* f"Failed to parse XML file: {e}"
ParseError(exc) == Error("PARSE_ERROR", exc, NoneText, NoneText)
\* f"Date validation error: {e}"
DateValidationError(exc) == Error("DATE_VALIDATION_ERROR", exc, NoneText, NoneText)

Ok(errs) == [errs |-> errs, exc |-> "none"]
Raise(exc) == [errs |-> <<>>, exc |-> exc]

(***************************************************************************)
(* Documents: the leaf elements in document order.  item is the number of  *)
(* the <item> the element lies in, 0 for an element of the <channel>.      *)
(***************************************************************************)
Elem(tag, text, name, item) ==
  [tag |-> tag, text |-> text, name |-> name, item |-> item]

\* doc.findall(".//{*}tag")
FindAll(d, tag) == SelectSeq(d, LAMBDA e : e.tag = tag)

(***************************************************************************)
(* Timestamps.  A date text is abstracted to the form of its characters    *)
(* and the instant it denotes, in units of 1/UnitsPerDay day:              *)
(*   "exact"     YYYY-MM-DDTHH:MM:SSZ, every field zero-padded and in range*)
(*   "unpadded"  as exact, but with a field written without its leading    *)
(*               zero, as in 2025-1-9T1:2:3Z                               *)
(*   "malformed" anything else (no Z, no time, a field out of range, ...)  *)
(* datetime.strptime(text, "%Y-%m-%dT%H:%M:%SZ") raises TypeError for None,*)
(* ValueError for a text the format's regular expression does not match,   *)
(* and the regular expressions of %m %d %H %M %S take one or two digits.   *)
(***************************************************************************)
DateStr(form, t) == Str([form |-> form, t |-> t])

Strptime(text) ==
  IF IsNone(text) THEN [exc |-> "TypeError", t |-> 0]
  ELSE IF Val(text).form \in {"exact", "unpadded"}
       THEN [exc |-> "none", t |-> Val(text).t]
       ELSE [exc |-> "ValueError", t |-> 0]

\* timedelta.days of (a - b)
DaysBetween(a, b) == (a - b) \div UnitsPerDay

(***************************************************************************)
(* _validate_dates                                                         *)
(***************************************************************************)
\* a comparison that also rejects the present instant
CheckDateNotBefore(field, text, now) ==
  LET p == Strptime(text) IN
  IF p.exc = "ValueError" THEN <<Error("DATE_FORMAT", field, NoneText, text)>>
  ELSE IF p.t >= now THEN <<Error("DATE_FUTURE", field, NoneText, text)>>
  ELSE <<>>

\* one strptime-and-compare, lines 202-207 and 211-216
CheckDate(field, text, now) ==
  LET p == Strptime(text) IN
  IF p.exc = "ValueError" THEN <<Error("DATE_FORMAT", field, NoneText, text)>>
  ELSE IF p.t > now THEN <<Error("DATE_FUTURE", field, NoneText, text)>>
  ELSE <<>>

RECURSIVE PubDatesLoop(_, _, _, _)
PubDatesLoop(ds, i, now, errs) ==
  IF i > Len(ds) THEN errs
  ELSE IF Strptime(ds[i].text).exc = "TypeError"
       THEN Append(errs, DateValidationError("TypeError"))
       ELSE PubDatesLoop(ds, i + 1, now, errs \o CheckDate("pubDate", ds[i].text, now))

ValidateDatesRule(d, now) ==
  LET lbs == FindAll(d, "lastBuildDate")
      pds == FindAll(d, "pubDate")
  IN  IF lbs # <<>> /\ Strptime(lbs[1].text).exc = "TypeError"
      THEN Ok(<<DateValidationError("TypeError")>>)
      ELSE Ok(PubDatesLoop(pds, 1, now,
                IF lbs = <<>> THEN <<>>
                ELSE CheckDate("lastBuildDate", lbs[1].text, now)))

(***************************************************************************)
(* _validate_uris                                                          *)
(***************************************************************************)
HttpPrefix == <<"h","t","t","p",":","/","/">>
HttpsPrefix == <<"h","t","t","p","s",":","/","/">>

\* urllib.parse.urlparse(url).netloc of a url that starts with a scheme and //
RECURSIVE NetlocEnd(_, _)
NetlocEnd(s, i) ==
  IF i > Len(s) \/ s[i] \in {"/", "?", "#"} THEN i - 1 ELSE NetlocEnd(s, i + 1)

Netloc(url) ==
  LET start == IF StartsWith(url, HttpsPrefix) THEN Len(HttpsPrefix) + 1
               ELSE Len(HttpPrefix) + 1
  IN  SubSeq(url, start, NetlocEnd(url, start))

\* urlsplit raises ValueError("Invalid IPv6 URL") on an unbalanced bracket
UrlparseRaises(url) ==
  Contains(Netloc(url), "[") # Contains(Netloc(url), "]")

CheckUri(text) ==
  LET url == Val(text)
      E == Error("URI_INVALID", "link", NoneText, text)
  IN  IF ~(StartsWith(url, HttpPrefix) \/ StartsWith(url, HttpsPrefix))
      THEN <<E>>
      ELSE IF UrlparseRaises(url) THEN <<E>>
      ELSE (IF Netloc(url) = <<>> THEN <<E>> ELSE <<>>)
           \o (IF Contains(url, " ") THEN <<E>> ELSE <<>>)
           \o (IF Count(Netloc(url), ".") = 0 THEN <<E>> ELSE <<>>)

RECURSIVE UrisLoop(_, _, _)
UrisLoop(ls, i, errs) ==
  IF i > Len(ls) THEN Ok(errs)
  ELSE IF IsNone(ls[i].text) THEN Raise("AttributeError")
       ELSE UrisLoop(ls, i + 1, errs \o CheckUri(ls[i].text))

ValidateUrisRule(d) == UrisLoop(FindAll(d, "link"), 1, <<>>)

(***************************************************************************)
(* _validate_percentages                                                   *)
(***************************************************************************)
RECURSIVE AffectedLoop(_, _, _)
AffectedLoop(as, i, errs) ==
  IF i > Len(as) THEN Ok(errs)
  ELSE IF IsNone(as[i].text) THEN Raise("TypeError")
       ELSE AffectedLoop(as, i + 1,
              IF ~MatchesPercentagePattern(Val(as[i].text))
              THEN Append(errs, Error("PERCENTAGE_FORMAT", "affectedUsers",
                                      NoneText, as[i].text))
              ELSE errs)

RECURSIVE MetricPercentLoop(_, _, _)
MetricPercentLoop(ms, i, errs) ==
  IF i > Len(ms) THEN Ok(errs)
  ELSE IF IsNone(ms[i].text) THEN Raise("TypeError")
       ELSE MetricPercentLoop(ms, i + 1,
              IF Contains(Val(ms[i].text), "%")
                 /\ ~MatchesPercentagePattern(Val(ms[i].text))
              THEN Append(errs, Error("PERCENTAGE_FORMAT", "metric",
                                      ms[i].name, ms[i].text))
              ELSE errs)

\* a rule that looks at the metrics before the affectedUsers values
ValidatePercentagesMetricsFirst(d) ==
  LET m == MetricPercentLoop(FindAll(d, "metric"), 1, <<>>) IN
  IF m.exc # "none" THEN m
  ELSE AffectedLoop(FindAll(d, "affectedUsers"), 1, m.errs)

ValidatePercentagesRule(d) ==
  LET a == AffectedLoop(FindAll(d, "affectedUsers"), 1, <<>>) IN
  IF a.exc # "none" THEN a
  ELSE MetricPercentLoop(FindAll(d, "metric"), 1, a.errs)

(***************************************************************************)
(* _validate_metrics and _get_metric_format_type                           *)
(***************************************************************************)
\* any(pattern.match(value) for pattern in metric_patterns.values())
MatchesAnyPattern(s) ==
  \/ MatchesPercentage(s)
  \/ MatchesNumeric(s)
  \/ MatchesRatio(s)
  \/ MatchesDuration(s)
  \/ MatchesBoolean(s)

\* the first pattern, in the dict's order, that matches
GetMetricFormatType(s) ==
  IF MatchesPercentage(s) THEN "percentage"
  ELSE IF MatchesNumeric(s) THEN "numeric"
  ELSE IF MatchesRatio(s) THEN "ratio"
  ELSE IF MatchesDuration(s) THEN "duration"
  ELSE IF MatchesBoolean(s) THEN "boolean"
  ELSE "unknown"

\* a scan that remembers the latest format type of a name
SeenAfterLastWins(seen, name, kind) ==
  [n \in DOMAIN seen \cup {name} |-> IF n = name THEN {kind} ELSE seen[n]]

\* lines 124-129: what one occurrence does to seen_metrics
SeenAfter(seen, name, kind) ==
  IF name \in DOMAIN seen THEN seen
  ELSE [n \in DOMAIN seen \cup {name} |-> IF n = name THEN {kind} ELSE seen[n]]

\* lines 124-127: whether the occurrence is reported inconsistent
Inconsistent(seen, name, kind) ==
  name \in DOMAIN seen /\ kind \notin seen[name]

\* lines 118-121
FormatErrors(m) ==
  IF ~MatchesAnyPattern(Val(m.text))
  THEN <<Error("METRIC_FORMAT", "metric", m.name, m.text)>>
  ELSE <<>>

\* a consistency check that is skipped for a value matching no pattern
ConsistencyErrorsOfValid(seen, m) ==
  IF MatchesAnyPattern(Val(m.text))
     /\ Inconsistent(seen, m.name, GetMetricFormatType(Val(m.text)))
  THEN <<Error("METRIC_INCONSISTENT", "metric", m.name, m.text)>>
  ELSE <<>>

\* lines 123-127
ConsistencyErrors(seen, m) ==
  IF Inconsistent(seen, m.name, GetMetricFormatType(Val(m.text)))
  THEN <<Error("METRIC_INCONSISTENT", "metric", m.name, m.text)>>
  ELSE <<>>

(***************************************************************************)
(* _validate_categories                                                    *)
(***************************************************************************)
\* str.strip()
RECURSIVE LStrip(_)
LStrip(s) == IF s # <<>> /\ s[1] \in Whitespace THEN LStrip(Tail(s)) ELSE s

RECURSIVE RStrip(_)
RStrip(s) ==
  IF s # <<>> /\ s[Len(s)] \in Whitespace THEN RStrip(SubSeq(s, 1, Len(s) - 1))
  ELSE s

Strip(s) == RStrip(LStrip(s))

\* ^[A-Z][a-zA-Z0-9 ]+$
MatchesCategoryFormat(s) ==
  \E u \in Dollar(s) :
    /\ Len(u) >= 2
    /\ u[1] \in Upper
    /\ \A i \in 2..Len(u) : u[i] \in Lower \cup Upper \cup Digit \cup {" "}

CheckCategory(text) ==
  LET cat_name == Strip(Val(text)) IN
  (IF cat_name \notin STANDARD_CATEGORIES
   THEN <<Error("CATEGORY_NONSTANDARD", "category", NoneText, Str(cat_name))>>
   ELSE <<>>)
  \o (IF ~MatchesCategoryFormat(cat_name)
      THEN <<Error("CATEGORY_FORMAT", "category", NoneText, Str(cat_name))>>
      ELSE <<>>)

RECURSIVE CategoriesLoop(_, _, _)
CategoriesLoop(cs, i, errs) ==
  IF i > Len(cs) THEN Ok(errs)
  ELSE IF IsNone(cs[i].text) THEN Raise("AttributeError")
       ELSE CategoriesLoop(cs, i + 1, errs \o CheckCategory(cs[i].text))

ValidateCategoriesRule(d) == CategoriesLoop(FindAll(d, "category"), 1, <<>>)

(***************************************************************************)
(* _validate_language                                                      *)
(***************************************************************************)
\* lang_elem.text not in self.ALLOWED_LANGUAGES
LanguageAllowed(text) == ~IsNone(text) /\ Val(text) \in ALLOWED_LANGUAGES

ValidateLanguageRule(d) ==
  LET ls == FindAll(d, "language") IN
  IF ls # <<>> /\ ~LanguageAllowed(ls[1].text)
  THEN Ok(<<Error("LANGUAGE_UNSUPPORTED", "language", NoneText, ls[1].text)>>)
  ELSE Ok(<<>>)

(***************************************************************************)
(* _validate_retention                                                     *)
(***************************************************************************)
\* lines 173-179: the instants of the pubDates strptime accepts, or the
\* TypeError that strptime(None) raises past "except ValueError"
RECURSIVE CollectPubDates(_, _, _)
CollectPubDates(ds, i, acc) ==
  IF i > Len(ds) THEN [exc |-> "none", dates |-> acc]
  ELSE LET p == Strptime(ds[i].text) IN
       IF p.exc = "TypeError" THEN [exc |-> "TypeError", dates |-> {}]
       ELSE CollectPubDates(ds, i + 1,
              IF p.exc = "ValueError" THEN acc ELSE acc \cup {p.t})

\* min(pub_dates)
MinOf(S) == CHOOSE m \in S : \A x \in S : m <= x

\* days_retained < self.MIN_RETENTION_DAYS
RetentionTooShort(now, oldest) == DaysBetween(now, oldest) < MIN_RETENTION_DAYS

ValidateRetentionRule(d, now) ==
  LET c == CollectPubDates(FindAll(d, "pubDate"), 1, {}) IN
  IF c.exc # "none" THEN Raise(c.exc)
  ELSE IF c.dates # {} /\ RetentionTooShort(now, MinOf(c.dates))
       THEN Ok(<<Error("RETENTION_TOO_SHORT", "pubDate", NoneText, NoneText)>>)
       ELSE Ok(<<>>)

(***************************************************************************)
(* The handler of validate_file, lines 79-82, and the size guard, line 57. *)
(***************************************************************************)
ExceptionClasses ==
  {"FileNotFoundError", "XMLSyntaxError", "TypeError", "AttributeError", "ValueError"}

\* a handler that names the parser's exception only
OuterCatchesSyntaxErrorOnly(exc) == exc = "XMLSyntaxError"

\* except Exception as e
OuterCatches(exc) == exc \in ExceptionClasses

\* a guard that also rejects a file of exactly the maximum size
SizeExceededOrEqual(size) == size >= MAX_FEED_SIZE

\* xml_path.stat().st_size > self.MAX_FEED_SIZE
SizeExceeded(size) == size > MAX_FEED_SIZE

\* a recovering parser, which hands back a tree whatever it reads
ParseOutcomeRecovering(inp) == "none"

\* etree.parse(xml_file)
ParseOutcome(inp) == IF inp.wellFormed THEN "none" ELSE "XMLSyntaxError"

(***************************************************************************)
(* Sample inputs.                                                          *)
(***************************************************************************)
Now0 == (MIN_RETENTION_DAYS + 1) * UnitsPerDay
Clocks == Now0..(Now0 + MaxTicks)

TYear == Now0 - MIN_RETENTION_DAYS * UnitsPerDay
TAlmost == TYear + 1
TNow == Now0
TSoon == Now0 + 1
TFuture == Now0 + MaxTicks + 1
\* thirty days before the first reading of the clock
T30 == Now0 - 30 * UnitsPerDay

DateTexts ==
  {NoneText, DateStr("malformed", 0), DateStr("unpadded", TFuture)}
  \cup {DateStr("exact", t) : t \in {TYear, TAlmost, T30, TNow, TSoon}}

LastBuildTexts ==
  {NoneText, DateStr("malformed", 0), DateStr("unpadded", TFuture),
   DateStr("exact", TNow), DateStr("exact", TSoon)}

ChannelLink == Str(<<"h","t","t","p","s",":","/","/","a",".","i","o">>)
ItemLink(i) ==
  Str(<<"h","t","t","p","s",":","/","/","a",".","i","o","/">>
      \o <<CASE i = 1 -> "1" [] i = 2 -> "2" [] i = 3 -> "3" [] OTHER -> "4">>)
BadLink == Str(<<"f","t","p",":","/","/","a",".","i","o">>)
TenPercent == Str(<<"1","0","%">>)
Five == Str(<<"5">>)
Yes == Str(<<"y","e","s">>)
Security == Str(<<"S","e","c","u","r","i","t","y">>)
RankingAlgo == Str(<<"r","a","n","k","i","n","g"," ","a","l","g","o">>)
EnUs == Str(<<"e","n","-","u","s">>)
XxXx == Str(<<"x","x","-","x","x">>)
NameX == Str(<<"X">>)
NameY == Str(<<"Y">>)

\* the values of the validator's metric tests, and some more
FormatValues ==
  { Str(<<"+","1","0",".","5","%">>), Str(<<"1","0",".","5","%">>),
    Str(<<"3",":","1">>), Str(<<"2","0","0","m","s">>), Str(<<"1",".","5","s">>),
    Str(<<"3","0","m","i","n">>), Str(<<"t","r","u","e">>), Str(<<"T","R","U","E">>),
    Str(<<"-","1","5",".","7">>), Str(<<"+","4","2">>),
    Str(<<"1","0",".","5">>), Str(<<"2","0","0">>), Str(<<"1","0",".","5","%","%">>),
    Str(<<"3",":">>), Str(<<"1",".","5","x">>), Str(<<"1","5",".","7",".","2">>),
    Str(<<"+","+","4","2">>), Str(<<"5","\n">>), Str(<<>>), Yes }

ConsistencyValues == {TenPercent, Five, Yes, NoneText}

SeqsUpTo(S, n) == UNION {[1..k -> S] : k \in 0..n}

Channel(link, lastBuild, language) ==
  <<Elem("link", link, NoneText, 0)>>
  \o (IF lastBuild = <<>> THEN <<>>
      ELSE <<Elem("lastBuildDate", lastBuild[1], NoneText, 0)>>)
  \o <<Elem("language", language, NoneText, 0)>>

MetricElems(ms, i) ==
  [k \in 1..Len(ms) |-> Elem("metric", ms[k].text, ms[k].name, i)]

Item(i, link, pubDate, category, affectedUsers, ms) ==
  << Elem("link", link, NoneText, i),
     Elem("pubDate", pubDate, NoneText, i),
     Elem("category", category, NoneText, i),
     Elem("affectedUsers", affectedUsers, NoneText, i) >>
  \o MetricElems(ms, i)

Metric(name, text) == [name |-> name, text |-> text]

CleanItem(i, pubDate) ==
  Item(i, ItemLink(i), pubDate, Security, TenPercent, <<Metric(NameX, Five)>>)

RECURSIVE Flatten(_)
Flatten(ss) == IF ss = <<>> THEN <<>> ELSE Head(ss) \o Flatten(Tail(ss))

\* every field that a rule reads is good, bad or empty, independently
RuleMixDoc(link, lb, lang, pd, cat, au, mv) ==
  Channel(link, <<lb>>, lang)
  \o Item(1, ItemLink(1), pd, cat, au, <<Metric(NameX, mv)>>)

MixLinks == {ChannelLink, BadLink, NoneText}
MixLastBuilds ==
  {DateStr("exact", TNow), DateStr("exact", TFuture), DateStr("malformed", 0), NoneText}
MixLanguages == {EnUs, XxXx}
MixPubDates ==
  {DateStr("exact", TYear), DateStr("exact", T30), DateStr("exact", TNow),
   DateStr("exact", TFuture), NoneText}
MixCategories == {Security, RankingAlgo, NoneText}
MixAffected == {TenPercent, Five, NoneText}
MixMetricValues == {Five, Yes, NoneText}

\* the dates vary, over documents of 0..MaxItems items
DateDoc(lb, pds) ==
  Channel(ChannelLink, lb, EnUs)
  \o Flatten([i \in 1..Len(pds) |-> CleanItem(i, pds[i])])

\* the metrics vary: one in the first item, the others in a second item
MetricDoc(ms) ==
  Channel(ChannelLink, <<DateStr("exact", TNow)>>, EnUs)
  \o Item(1, ItemLink(1), DateStr("exact", TYear), Security, TenPercent,
          SubSeq(ms, 1, 1))
  \o Item(2, ItemLink(2), DateStr("exact", TYear), Security, TenPercent,
          SubSeq(ms, 2, Len(ms)))

SampleMetrics == {Metric(n, v) : n \in {NameX, NameY}, v \in ConsistencyValues}

\* one metric, of every sample value
FormatDoc(v) ==
  Channel(ChannelLink, <<DateStr("exact", TNow)>>, EnUs)
  \o Item(1, ItemLink(1), DateStr("exact", TYear), Security, TenPercent,
          <<Metric(NameX, v)>>)

\* links of every kind the URI rule tells apart
NoDotLink == Str(<<"h","t","t","p","s",":","/","/","l","o","c","a","l","h","o","s","t">>)
EmptyHostLink == Str(<<"h","t","t","p","s",":","/","/","/","x">>)
SpaceLink == Str(<<"h","t","t","p","s",":","/","/","a",".","i","o","/","a"," ","b">>)
TabLink == Str(<<"h","t","t","p","s",":","/","/","a",".","i","o","/","a","\t","b">>)
InvalidUrl == Str(<<"i","n","v","a","l","i","d","-","u","r","l">>)
HttpLink == Str(<<"h","t","t","p",":","/","/","a",".","i","o">>)

UriLinks ==
  {ChannelLink, HttpLink, BadLink, InvalidUrl, NoDotLink, EmptyHostLink,
   SpaceLink, TabLink}

\* the links vary: the channel's, and the link of at most one item
UriDoc(cl, ils) ==
  Channel(cl, <<DateStr("exact", TNow)>>, EnUs)
  \o Flatten([i \in 1..Len(ils) |->
        Item(i, ils[i], DateStr("exact", TYear), Security, TenPercent,
             <<Metric(NameX, Five)>>)])

RankingAlgorithm ==
  Str(<<"R","a","n","k","i","n","g"," ","A","l","g","o","r","i","t","h","m">>)
PaddedSecurity == Str(<<" ","S","e","c","u","r","i","t","y","\n">>)
FooBar == Str(<<"F","o","o"," ","B","a","r">>)
OneLetter == Str(<<"A">>)

CategoryTexts == {RankingAlgorithm, RankingAlgo, PaddedSecurity, FooBar, OneLetter}

\* the categories vary, one item for each
CategoryDoc(cs) ==
  Channel(ChannelLink, <<DateStr("exact", TNow)>>, EnUs)
  \o Flatten([i \in 1..Len(cs) |->
        Item(i, ItemLink(i), DateStr("exact", TYear), cs[i], TenPercent,
             <<Metric(NameX, Five)>>)])

EnUsUpper == Str(<<"E","N","-","U","S">>)
Fr == Str(<<"f","r">>)

LanguageTexts == {EnUs, Fr, EnUsUpper, XxXx, NoneText}

\* the language varies, and may be missing: a channel and no item
LanguageDoc(lb, lang) ==
  <<Elem("link", ChannelLink, NoneText, 0),
    Elem("lastBuildDate", lb, NoneText, 0)>>
  \o (IF lang = <<>> THEN <<>> ELSE <<Elem("language", lang[1], NoneText, 0)>>)

SignedPercent == Str(<<"+","1","0","%">>)

\* the percentages vary: affectedUsers and one metric in each item
PercentDoc(aus, vs) ==
  Channel(ChannelLink, <<DateStr("exact", TNow)>>, EnUs)
  \o Flatten([i \in 1..Len(aus) |->
        Item(i, ItemLink(i), DateStr("exact", TYear), Security, aus[i],
             <<Metric(NameX, vs[i])>>)])

File(size, wellFormed, schemaErrors, d) ==
  [exists |-> TRUE, size |-> size, wellFormed |-> wellFormed,
   schemaErrors |-> schemaErrors, doc |-> d]

NoFile ==
  [exists |-> FALSE, size |-> 0, wellFormed |-> FALSE, schemaErrors |-> 0,
   doc |-> <<>>]

Sizes == {1, MAX_FEED_SIZE, MAX_FEED_SIZE + 1}

InitInput ==
  \/ input = NoFile
  \/ \E s \in Sizes : input = File(s, FALSE, 0, <<>>)
  \/ \E s \in Sizes, n \in 0..MaxSchemaErrors, v \in FormatValues :
       input = File(s, TRUE, n, FormatDoc(v))
  \/ \E n \in {0, MaxSchemaErrors},
        lb \in {<<>>} \cup {<<t>> : t \in LastBuildTexts},
        pds \in SeqsUpTo(DateTexts, MaxItems) :
       input = File(MAX_FEED_SIZE, TRUE, n, DateDoc(lb, pds))
  \/ \E n \in {0, MaxSchemaErrors}, link \in MixLinks, lb \in MixLastBuilds,
        lang \in MixLanguages, pd \in MixPubDates, cat \in MixCategories,
        au \in MixAffected, mv \in MixMetricValues :
       input = File(1, TRUE, n, RuleMixDoc(link, lb, lang, pd, cat, au, mv))
  \/ \E ms \in SeqsUpTo(SampleMetrics, MaxMetrics) :
       Len(ms) >= 1 /\ input = File(1, TRUE, 0, MetricDoc(ms))
  \/ \E cl \in UriLinks, ils \in SeqsUpTo(UriLinks, 1) :
       input = File(1, TRUE, 0, UriDoc(cl, ils))
  \/ \E cs \in SeqsUpTo(CategoryTexts, MaxItems) :
       Len(cs) >= 1 /\ input = File(1, TRUE, 0, CategoryDoc(cs))
  \/ \E n \in {0, MaxSchemaErrors},
        lb \in {DateStr("exact", TNow), DateStr("exact", TSoon)},
        lang \in {<<>>} \cup {<<t>> : t \in LanguageTexts} :
       input = File(1, TRUE, n, LanguageDoc(lb, lang))
  \/ \E n \in 1..MaxItems :
       \E aus \in [1..n -> {TenPercent, Five}],
          vs \in [1..n -> {TenPercent, SignedPercent}] :
         input = File(1, TRUE, 0, PercentDoc(aus, vs))

(***************************************************************************)
(* validate_file, one action per step of its body.                         *)
(***************************************************************************)
\* no compare_feeds call is under way
DifferIdle ==
  /\ feed1 = <<>> /\ feed2 = <<>>
  /\ dpc = "idle"
  /\ items1 = <<>> /\ items2 = <<>>
  /\ added = <<>> /\ removed = <<>> /\ modified = <<>>
  /\ draised = "none"

\* the validator has been built from a good schema; one thread calls it
ObjectBuilt ==
  /\ schema_file = "valid"
  /\ schema = "compiled"
  /\ cpc = "built"
  /\ craised = "none"
  /\ other = <<>>
  /\ thread = 1

\* the state when validate_file is first called
InitCall ==
  /\ pc = "start"
  /\ doc = <<>>
  /\ errors = <<>>
  /\ raised = "none"
  /\ clock = Now0
  /\ nowDates = 0
  /\ nowRetention = 0
  /\ mi = 1
  /\ seen_metrics = <<>>
  /\ merrors = <<>>
  /\ call = 1
  /\ firstErrors = <<>>
  /\ DifferIdle
  /\ ObjectBuilt

Init == InitInput /\ InitCall

\* an exception reaches "except Exception" (or leaves the call)
Abort(exc) ==
  /\ pc' = "done"
  /\ IF OuterCatches(exc)
     THEN errors' = Append(errors, ParseError(exc)) /\ raised' = raised
     ELSE errors' = errors /\ raised' = exc

\* a rule's errors are added, or its exception aborts the call
Finish(r, next) ==
  IF r.exc = "none"
  THEN /\ errors' = errors \o r.errs
       /\ raised' = raised
       /\ pc' = next
  ELSE Abort(r.exc)

CheckSize ==
  /\ pc = "start"
  /\ IF ~input.exists THEN Abort("FileNotFoundError")
     ELSE IF SizeExceeded(input.size)
          THEN /\ errors' = Append(errors, SizeError)
               /\ raised' = raised
               /\ pc' = "done"
          ELSE /\ pc' = "parse"
               /\ UNCHANGED <<errors, raised>>
  /\ UNCHANGED <<input, doc, clock, nowDates, nowRetention, mi, seen_metrics, merrors>>
  /\ UNCHANGED <<calls, differ, object>>

Parse ==
  /\ pc = "parse"
  /\ IF ParseOutcome(input) = "none"
     THEN /\ doc' = input.doc
          /\ pc' = "schema"
          /\ UNCHANGED <<errors, raised>>
     ELSE /\ doc' = doc
          /\ Abort(ParseOutcome(input))
  /\ UNCHANGED <<input, clock, nowDates, nowRetention, mi, seen_metrics, merrors>>
  /\ UNCHANGED <<calls, differ, object>>

\* self.schema.assertValid(doc): the schema engine's error log is an input
SchemaValidate ==
  /\ pc = "schema"
  /\ errors' = errors \o [k \in 1..input.schemaErrors |-> SchemaError]
  /\ pc' = "dates"
  /\ UNCHANGED <<input, doc, raised, clock, nowDates, nowRetention, mi, seen_metrics, merrors>>
  /\ UNCHANGED <<calls, differ, object>>

\* datetime.utcnow() is read when the rule starts
ValidateDates ==
  /\ pc = "dates"
  /\ \E now \in Clocks :
       /\ now >= clock
       /\ clock' = now
       /\ nowDates' = now
       /\ Finish(ValidateDatesRule(doc, now), "uris")
  /\ UNCHANGED <<input, doc, nowRetention, mi, seen_metrics, merrors>>
  /\ UNCHANGED <<calls, differ, object>>

ValidateUris ==
  /\ pc = "uris"
  /\ Finish(ValidateUrisRule(doc), "percentages")
  /\ UNCHANGED <<input, doc, clock, nowDates, nowRetention, mi, seen_metrics, merrors>>
  /\ UNCHANGED <<calls, differ, object>>

ValidatePercentages ==
  /\ pc = "percentages"
  /\ Finish(ValidatePercentagesRule(doc), "metrics")
  /\ UNCHANGED <<input, doc, clock, nowDates, nowRetention, mi, seen_metrics, merrors>>
  /\ UNCHANGED <<calls, differ, object>>

\* one turn of the loop of _validate_metrics, lines 114-129; a metric without
\* text makes pattern.match raise, and the rule's locals are lost
MetricsStep ==
  /\ pc = "metrics"
  /\ mi <= Len(FindAll(doc, "metric"))
  /\ LET m == FindAll(doc, "metric")[mi] IN
     IF IsNone(m.text)
     THEN /\ Abort("TypeError")
          /\ mi' = 1
          /\ seen_metrics' = <<>>
          /\ merrors' = <<>>
     ELSE /\ merrors' = merrors \o FormatErrors(m) \o ConsistencyErrors(seen_metrics, m)
          /\ seen_metrics' =
               SeenAfter(seen_metrics, m.name, GetMetricFormatType(Val(m.text)))
          /\ mi' = mi + 1
          /\ UNCHANGED <<pc, errors, raised>>
  /\ UNCHANGED <<input, doc, clock, nowDates, nowRetention>>
  /\ UNCHANGED <<calls, differ, object>>

\* return errors, line 131, and errors.extend(...), line 74
MetricsReturn ==
  /\ pc = "metrics"
  /\ mi > Len(FindAll(doc, "metric"))
  /\ errors' = errors \o merrors
  /\ pc' = "categories"
  /\ mi' = 1
  /\ seen_metrics' = <<>>
  /\ merrors' = <<>>
  /\ UNCHANGED <<input, doc, raised, clock, nowDates, nowRetention>>
  /\ UNCHANGED <<calls, differ, object>>

ValidateCategories ==
  /\ pc = "categories"
  /\ Finish(ValidateCategoriesRule(doc), "language")
  /\ UNCHANGED <<input, doc, clock, nowDates, nowRetention, mi, seen_metrics, merrors>>
  /\ UNCHANGED <<calls, differ, object>>

ValidateLanguage ==
  /\ pc = "language"
  /\ Finish(ValidateLanguageRule(doc), "retention")
  /\ UNCHANGED <<input, doc, clock, nowDates, nowRetention, mi, seen_metrics, merrors>>
  /\ UNCHANGED <<calls, differ, object>>

ValidateRetention ==
  /\ pc = "retention"
  /\ \E now \in Clocks :
       /\ now >= clock
       /\ clock' = now
       /\ nowRetention' = now
       /\ Finish(ValidateRetentionRule(doc, now), "done")
  /\ UNCHANGED <<input, doc, nowDates, mi, seen_metrics, merrors>>
  /\ UNCHANGED <<calls, differ, object>>

Next ==
  \/ CheckSize
  \/ Parse
  \/ SchemaValidate
  \/ ValidateDates
  \/ ValidateUris
  \/ ValidatePercentages
  \/ MetricsStep
  \/ MetricsReturn
  \/ ValidateCategories
  \/ ValidateLanguage
  \/ ValidateRetention

Spec == Init /\ [][Next]_vars

(***************************************************************************)
(* Two calls of validate_file on the same file.  The validator keeps       *)
(* nothing of a call but what it returned to the caller; the clock goes on.*)
(***************************************************************************)
InitTwice ==
  /\ InitCall
  /\ \E lb \in {<<>>} \cup {<<t>> : t \in LastBuildTexts},
        pds \in SeqsUpTo(DateTexts, MaxItems) :
       input = File(MAX_FEED_SIZE, TRUE, 0, DateDoc(lb, pds))

\* the caller calls validate_file(xml_path) again
CallAgain ==
  /\ pc = "done" /\ call = 1 /\ raised = "none"
  /\ call' = 2
  /\ firstErrors' = errors
  /\ pc' = "start"
  /\ doc' = <<>>
  /\ errors' = <<>>
  /\ nowDates' = 0
  /\ nowRetention' = 0
  /\ UNCHANGED <<input, raised, clock, mi, seen_metrics, merrors, differ, object>>

NextTwice ==
  \/ Next
  \/ CallAgain

SpecTwice == InitTwice /\ [][NextTwice]_vars

(***************************************************************************)
(* FeedManager.compare_feeds.  A feed file is well-formed or not, declares *)
(* a default namespace (as ATF documents do) or not, and holds a document. *)
(***************************************************************************)
Feed(wellFormed, namespaced, d) ==
  [wellFormed |-> wellFormed, namespaced |-> namespaced, doc |-> d]

\* a parser that would take a file that is no XML for an empty document
ETParseOutcomeLenient(feed) == "none"

\* ET.parse(feed_path)
ETParseOutcome(feed) == IF feed.wellFormed THEN "none" ELSE "ParseError"

\* the numbers of the <item> elements of a document, in document order
RECURSIVE ItemNumbers(_, _)
ItemNumbers(d, seen) ==
  IF d = <<>> THEN <<>>
  ELSE IF Head(d).item = 0 \/ Head(d).item \in seen
       THEN ItemNumbers(Tail(d), seen)
       ELSE <<Head(d).item>> \o ItemNumbers(Tail(d), seen \cup {Head(d).item})

\* tree.findall(".//item"): in a document that declares a default namespace
\* the elements have the tag {uri}item, which this path does not match
ItemsFound(feed) ==
  IF feed.namespaced THEN <<>> ELSE ItemNumbers(feed.doc, {})

\* item.find(tag): the children of the item with this tag (find takes the
\* first; none makes find return None)
Child(d, i, tag) == SelectSeq(d, LAMBDA e : e.item = i /\ e.tag = tag)

ItemFields == <<"title", "description", "pubDate">>

\* items[item_id] = {...}: a dict keeps the place of a key that is set again
DictPut(items, entry) ==
  IF \E k \in 1..Len(items) : items[k].id = entry.id
  THEN [k \in 1..Len(items) |-> IF items[k].id = entry.id THEN entry ELSE items[k]]
  ELSE Append(items, entry)

\* the loop of _extract_items; .text of a child that is not there raises
RECURSIVE ExtractLoop(_, _, _, _)
ExtractLoop(d, ns, k, items) ==
  IF k > Len(ns) THEN [exc |-> "none", items |-> items]
  ELSE IF \E tag \in {"link", "title", "description", "pubDate"} :
            Child(d, ns[k], tag) = <<>>
       THEN [exc |-> "AttributeError", items |-> <<>>]
       ELSE ExtractLoop(d, ns, k + 1,
              DictPut(items,
                [id |-> Child(d, ns[k], "link")[1].text,
                 title |-> Child(d, ns[k], "title")[1].text,
                 description |-> Child(d, ns[k], "description")[1].text,
                 pubDate |-> Child(d, ns[k], "pubDate")[1].text]))

ExtractItems(feed) == ExtractLoop(feed.doc, ItemsFound(feed), 1, <<>>)

\* item_id in items
HasKey(items, id) == \E k \in 1..Len(items) : items[k].id = id
\* items[item_id]
Lookup(items, id) == items[CHOOSE k \in 1..Len(items) : items[k].id = id]

\* items1[item_id] != item
ItemDiffers(a, b) == \E f \in 1..Len(ItemFields) : a[ItemFields[f]] # b[ItemFields[f]]

\* list(difflib.ndiff(old.splitlines(), new.splitlines())) of two different
\* values of one line each (the '?' lines that mark the changed characters of
\* two similar lines are left out); an empty value has no line
NDiff(old, new) ==
  (IF Val(old) = <<>> THEN <<>> ELSE <<[op |-> "-", line |-> old]>>)
  \o (IF Val(new) = <<>> THEN <<>> ELSE <<[op |-> "+", line |-> new]>>)

\* _diff_items: the fields that differ, in the order of the dict's keys;
\* splitlines() of a value that is None raises
RECURSIVE DiffLoop(_, _, _, _)
DiffLoop(a, b, f, diffs) ==
  IF f > Len(ItemFields) THEN [exc |-> "none", diffs |-> diffs]
  ELSE LET key == ItemFields[f] IN
       IF a[key] = b[key] THEN DiffLoop(a, b, f + 1, diffs)
       ELSE IF IsNone(a[key]) \/ IsNone(b[key])
            THEN [exc |-> "AttributeError", diffs |-> <<>>]
            ELSE DiffLoop(a, b, f + 1,
                   Append(diffs, [field |-> key, old |-> a[key], new |-> b[key],
                                  diff |-> NDiff(a[key], b[key])]))

DiffItems(a, b) == DiffLoop(a, b, 1, <<>>)

\* lines 104-111: the loop over items2
RECURSIVE AddedLoop(_, _, _, _, _)
AddedLoop(its1, its2, k, add, mod) ==
  IF k > Len(its2) THEN [exc |-> "none", added |-> add, modified |-> mod]
  ELSE IF ~HasKey(its1, its2[k].id)
       THEN AddedLoop(its1, its2, k + 1, Append(add, its2[k].title), mod)
       ELSE IF ItemDiffers(Lookup(its1, its2[k].id), its2[k])
            THEN LET r == DiffItems(Lookup(its1, its2[k].id), its2[k]) IN
                 IF r.exc # "none"
                 THEN [exc |-> r.exc, added |-> <<>>, modified |-> <<>>]
                 ELSE AddedLoop(its1, its2, k + 1, add,
                        Append(mod, [title |-> its2[k].title, changes |-> r.diffs]))
            ELSE AddedLoop(its1, its2, k + 1, add, mod)

\* a loop over items1 that puts every removed title in front of the list
RECURSIVE RemovedLoopNewestFirst(_, _, _, _)
RemovedLoopNewestFirst(its1, its2, k, rem) ==
  IF k > Len(its1) THEN rem
  ELSE RemovedLoopNewestFirst(its1, its2, k + 1,
         IF ~HasKey(its2, its1[k].id) THEN <<its1[k].title>> \o rem ELSE rem)

\* lines 113-115: the loop over items1
RECURSIVE RemovedLoop(_, _, _, _)
RemovedLoop(its1, its2, k, rem) ==
  IF k > Len(its1) THEN rem
  ELSE RemovedLoop(its1, its2, k + 1,
         IF ~HasKey(its2, its1[k].id) THEN Append(rem, its1[k].title) ELSE rem)

(***************************************************************************)
(* Sample feeds.                                                           *)
(***************************************************************************)
TitleA == Str(<<"A">>)
TitleB == Str(<<"B">>)
DescA == Str(<<"a">>)

\* an item of a feed; its description may be missing, or there and empty
FeedItem(link, title, description, pubDate) ==
  [link |-> link, title |-> title, description |-> description, pubDate |-> pubDate]

FeedItems ==
  { FeedItem(ItemLink(1), TitleA, <<DescA>>, DateStr("exact", TYear)),
    FeedItem(ItemLink(1), TitleB, <<DescA>>, DateStr("exact", TNow)),
    FeedItem(ItemLink(2), TitleB, <<DescA>>, DateStr("exact", TYear)),
    FeedItem(ItemLink(2), TitleB, <<>>, DateStr("exact", TYear)),
    FeedItem(ItemLink(1), TitleA, <<NoneText>>, DateStr("exact", TYear)) }

FeedItemElems(i, it) ==
  << Elem("title", it.title, NoneText, i),
     Elem("link", it.link, NoneText, i),
     Elem("pubDate", it.pubDate, NoneText, i) >>
  \o (IF it.description = <<>> THEN <<>>
      ELSE <<Elem("description", it.description[1], NoneText, i)>>)

FeedDoc(its) ==
  <<Elem("link", ChannelLink, NoneText, 0)>>
  \o Flatten([i \in 1..Len(its) |-> FeedItemElems(i, its[i])])

\* a file that is no XML
BrokenFeed == Feed(FALSE, FALSE, <<>>)

InitFeed(f) ==
  \/ f = BrokenFeed
  \/ \E ns \in BOOLEAN, its \in SeqsUpTo(FeedItems, MaxItems) :
       f = Feed(TRUE, ns, FeedDoc(its))

(***************************************************************************)
(* compare_feeds, one action per step of its body.                         *)
(***************************************************************************)
InitDiff ==
  /\ input = NoFile
  /\ pc = "idle"
  /\ doc = <<>>
  /\ errors = <<>>
  /\ raised = "none"
  /\ clock = Now0
  /\ nowDates = 0
  /\ nowRetention = 0
  /\ mi = 1
  /\ seen_metrics = <<>>
  /\ merrors = <<>>
  /\ call = 1
  /\ firstErrors = <<>>
  /\ ObjectBuilt
  /\ InitFeed(feed1)
  /\ InitFeed(feed2)
  /\ dpc = "parse1"
  /\ items1 = <<>>
  /\ items2 = <<>>
  /\ added = <<>>
  /\ removed = <<>>
  /\ modified = <<>>
  /\ draised = "none"

validator == <<input, pc, doc, errors, raised, clock, nowDates, nowRetention,
               mi, seen_metrics, merrors>>

\* an exception leaves compare_feeds, which has no handler
DiffRaise(exc) ==
  /\ draised' = exc
  /\ dpc' = "done"

\* feed1 = ET.parse(feed1_path)
ParseFeed1 ==
  /\ dpc = "parse1"
  /\ IF ETParseOutcome(feed1) = "none"
     THEN dpc' = "parse2" /\ draised' = draised
     ELSE DiffRaise(ETParseOutcome(feed1))
  /\ UNCHANGED <<feed1, feed2, items1, items2, added, removed, modified>>
  /\ UNCHANGED <<validator, calls, object>>

\* feed2 = ET.parse(feed2_path)
ParseFeed2 ==
  /\ dpc = "parse2"
  /\ IF ETParseOutcome(feed2) = "none"
     THEN dpc' = "extract1" /\ draised' = draised
     ELSE DiffRaise(ETParseOutcome(feed2))
  /\ UNCHANGED <<feed1, feed2, items1, items2, added, removed, modified>>
  /\ UNCHANGED <<validator, calls, object>>

\* items1 = self._extract_items(feed1)
ExtractItems1 ==
  /\ dpc = "extract1"
  /\ LET r == ExtractItems(feed1) IN
     IF r.exc = "none"
     THEN items1' = r.items /\ dpc' = "extract2" /\ draised' = draised
     ELSE items1' = items1 /\ DiffRaise(r.exc)
  /\ UNCHANGED <<feed1, feed2, items2, added, removed, modified>>
  /\ UNCHANGED <<validator, calls, object>>

\* items2 = self._extract_items(feed2)
ExtractItems2 ==
  /\ dpc = "extract2"
  /\ LET r == ExtractItems(feed2) IN
     IF r.exc = "none"
     THEN items2' = r.items /\ dpc' = "added" /\ draised' = draised
     ELSE items2' = items2 /\ DiffRaise(r.exc)
  /\ UNCHANGED <<feed1, feed2, items1, added, removed, modified>>
  /\ UNCHANGED <<validator, calls, object>>

\* for item_id, item in items2.items(): ...
FindAddedAndModified ==
  /\ dpc = "added"
  /\ LET r == AddedLoop(items1, items2, 1, <<>>, <<>>) IN
     IF r.exc = "none"
     THEN /\ added' = r.added
          /\ modified' = r.modified
          /\ dpc' = "removed"
          /\ draised' = draised
     ELSE /\ UNCHANGED <<added, modified>>
          /\ DiffRaise(r.exc)
  /\ UNCHANGED <<feed1, feed2, items1, items2, removed>>
  /\ UNCHANGED <<validator, calls, object>>

\* for item_id, item in items1.items(): ... ; return FeedDiff(...)
FindRemoved ==
  /\ dpc = "removed"
  /\ removed' = RemovedLoop(items1, items2, 1, <<>>)
  /\ dpc' = "done"
  /\ UNCHANGED <<feed1, feed2, items1, items2, added, modified, draised>>
  /\ UNCHANGED <<validator, calls, object>>

NextDiff ==
  \/ ParseFeed1
  \/ ParseFeed2
  \/ ExtractItems1
  \/ ExtractItems2
  \/ FindAddedAndModified
  \/ FindRemoved

SpecDiff == InitDiff /\ [][NextDiff]_vars

(***************************************************************************)
(* One validator: ATFValidator(schema_path) builds it, then two threads    *)
(* call validate_file on it.  A call's parameters and locals are its own;  *)
(* the threads share the object and the clock.  One thread runs at a time  *)
(* and may be switched out between any two steps.                          *)
(***************************************************************************)
SchemaFiles == {"missing", "malformed", "invalid", "valid"}

\* lines 43-46: what open, etree.parse and etree.XMLSchema raise
LoadSchemaOutcome(file) ==
  IF file = "missing" THEN "FileNotFoundError"
  ELSE IF file = "malformed" THEN "XMLSyntaxError"
  ELSE IF file = "invalid" THEN "XMLSchemaParseError"
  ELSE "none"

\* a handler for a file that cannot be opened only
LoadCatchesOSErrorOnly(exc) == exc = "FileNotFoundError"

\* line 47: except Exception as e
LoadCatches(exc) ==
  exc \in {"FileNotFoundError", "XMLSyntaxError", "XMLSchemaParseError"}

\* __init__: self.schema_path = schema_path; self._load_schema()
Construct ==
  /\ cpc = "new"
  /\ LET exc == LoadSchemaOutcome(schema_file) IN
     IF exc = "none"
     THEN /\ schema' = "compiled"
          /\ cpc' = "built"
          /\ craised' = craised
     ELSE /\ schema' = schema
          /\ cpc' = "failed"
          /\ craised' = IF LoadCatches(exc) THEN "ValueError" ELSE exc
  /\ UNCHANGED <<schema_file, other, thread, validator, calls, differ>>

\* the running thread calls validate_file on the object it was given
CallValidate ==
  /\ cpc = "built"
  /\ pc = "idle"
  /\ pc' = "start"
  /\ UNCHANGED <<input, doc, errors, raised, clock, nowDates, nowRetention,
                 mi, seen_metrics, merrors, calls, differ, object>>

\* the parameters and locals of the running call
ThisCall ==
  [input |-> input, pc |-> pc, doc |-> doc, errors |-> errors, raised |-> raised,
   nowDates |-> nowDates, nowRetention |-> nowRetention,
   mi |-> mi, seen_metrics |-> seen_metrics, merrors |-> merrors]

\* an accumulator kept on the object would be the same for both threads
KeptOnSelf(mine, theirs) == mine

\* line 112: seen_metrics = {} is a local of the call, the other thread has
\* its own
LocalOfCall(mine, theirs) == theirs

\* the other thread gets to run
Switch ==
  /\ cpc = "built"
  /\ other' = ThisCall
  /\ thread' = 3 - thread
  /\ input' = other.input
  /\ pc' = other.pc
  /\ doc' = other.doc
  /\ errors' = other.errors
  /\ raised' = other.raised
  /\ nowDates' = other.nowDates
  /\ nowRetention' = other.nowRetention
  /\ mi' = other.mi
  /\ seen_metrics' = LocalOfCall(seen_metrics, other.seen_metrics)
  /\ merrors' = other.merrors
  /\ UNCHANGED <<clock, schema_file, schema, cpc, craised, calls, differ>>

\* a call that has not been made yet
NotCalled(file) ==
  [input |-> file, pc |-> "idle", doc |-> <<>>, errors |-> <<>>, raised |-> "none",
   nowDates |-> 0, nowRetention |-> 0, mi |-> 1, seen_metrics |-> <<>>,
   merrors |-> <<>>]

InitShare ==
  /\ schema_file \in SchemaFiles
  /\ schema = "unset"
  /\ cpc = "new"
  /\ craised = "none"
  /\ thread = 1
  /\ \E n \in 0..MaxSchemaErrors, v \in ConsistencyValues :
       input = File(1, TRUE, n, FormatDoc(v))
  /\ \E n \in 0..MaxSchemaErrors, v \in ConsistencyValues :
       other = NotCalled(File(1, TRUE, n, FormatDoc(v)))
  /\ pc = "idle"
  /\ doc = <<>>
  /\ errors = <<>>
  /\ raised = "none"
  /\ clock = Now0
  /\ nowDates = 0
  /\ nowRetention = 0
  /\ mi = 1
  /\ seen_metrics = <<>>
  /\ merrors = <<>>
  /\ call = 1
  /\ firstErrors = <<>>
  /\ DifferIdle

NextShare ==
  \/ Construct
  \/ CallValidate
  \/ Switch
  \/ Next

SpecShare == InitShare /\ [][NextShare]_vars

(***************************************************************************)
(* The claims.                                                             *)
(***************************************************************************)
Done == pc = "done"

\* the call got past the size guard and the parse: its rules see input.doc
Parsed == input.exists /\ input.size <= MAX_FEED_SIZE /\ input.wellFormed

Metrics == FindAll(input.doc, "metric")
PubDates == FindAll(input.doc, "pubDate")

HasError(kind, field, text) ==
  \E i \in 1..Len(errors) :
    errors[i].kind = kind /\ errors[i].field = field /\ errors[i].text = text

HasKind(kind) == \E i \in 1..Len(errors) : errors[i].kind = kind

HasMetricError(errs, kinds, m) ==
  \E i \in 1..Len(errs) :
    /\ errs[i].kind \in kinds
    /\ errs[i].field = "metric"
    /\ errs[i].name = m.name
    /\ errs[i].text = m.text

\* C1: a file larger than MAX_FEED_SIZE gets exactly the one SIZE_EXCEEDED
\* error, with no parse and no rule run, whatever it holds; a file of at most
\* MAX_FEED_SIZE bytes (so also of exactly that size) gets no SIZE_EXCEEDED.
C1_SizeGuard ==
  /\ (input.exists /\ input.size > MAX_FEED_SIZE) =>
       /\ pc \in {"start", "done"}
       /\ doc = <<>> /\ nowDates = 0 /\ nowRetention = 0 /\ mi = 1
       /\ raised = "none"
       /\ Done => errors = <<SizeError>>
  /\ (input.exists /\ input.size <= MAX_FEED_SIZE) => ~HasKind("SIZE_EXCEEDED")

C1_Witness ==
  /\ Done /\ input.exists /\ input.size > MAX_FEED_SIZE /\ ~input.wellFormed
  /\ errors = <<SizeError>>

C3_AllRulesRun ==
  (Done /\ Parsed) =>
    /\ nowDates # 0 /\ nowRetention # 0
    /\ \A i \in 1..Len(input.doc) :
         LET e == input.doc[i] IN
         /\ (e.tag = "pubDate" /\ Strptime(e.text).exc = "ValueError")
              => HasError("DATE_FORMAT", "pubDate", e.text)
         /\ (e.tag = "link" /\ ~IsNone(e.text) /\ CheckUri(e.text) # <<>>)
              => HasError("URI_INVALID", "link", e.text)
         /\ (e.tag = "affectedUsers" /\ ~IsNone(e.text)
               /\ ~MatchesPercentagePattern(Val(e.text)))
              => HasError("PERCENTAGE_FORMAT", "affectedUsers", e.text)
         /\ (e.tag = "metric" /\ ~IsNone(e.text) /\ ~MatchesAnyPattern(Val(e.text)))
              => HasMetricError(errors, {"METRIC_FORMAT"}, e)
         /\ (e.tag = "category" /\ ~IsNone(e.text)
               /\ Strip(Val(e.text)) \notin STANDARD_CATEGORIES)
              => HasError("CATEGORY_NONSTANDARD", "category", Str(Strip(Val(e.text))))
         /\ (e.tag = "language" /\ ~LanguageAllowed(e.text))
              => HasError("LANGUAGE_UNSUPPORTED", "language", e.text)

\* C4: when the parse of a file within the size limit fails, the result is
\* exactly one error, a PARSE_ERROR.
C4_ParseFailure ==
  (Done /\ input.exists /\ input.size <= MAX_FEED_SIZE /\ ~input.wellFormed) =>
    /\ errors = <<ParseError("XMLSyntaxError")>>
    /\ raised = "none"

C4_Witness ==
  /\ Done /\ input.exists /\ input.size = MAX_FEED_SIZE /\ ~input.wellFormed
  /\ Len(errors) = 1 /\ errors[1].kind = "PARSE_ERROR"

\* C5: validate_file on a path that does not exist raises FileNotFoundError.
C5_RaisesFileNotFound ==
  (Done /\ ~input.exists) => raised = "FileNotFoundError"

\* the profile YYYY-MM-DDTHH:MM:SSZ itself
ConformsToProfile(text) == Val(text).form = "exact"

\* C6: for lastBuildDate and every pubDate that has a text, a text outside
\* the exact profile has a DATE_FORMAT error, a conforming text later than now
\* a DATE_FUTURE error, and a conforming text not later than now has neither
\* (now is the time the date rule read).
C6_DateRule ==
  (Done /\ Parsed) =>
    \A i \in 1..Len(input.doc) :
      LET e == input.doc[i] IN
      (e.tag \in {"lastBuildDate", "pubDate"} /\ ~IsNone(e.text)) =>
        /\ ~ConformsToProfile(e.text) => HasError("DATE_FORMAT", e.tag, e.text)
        /\ (ConformsToProfile(e.text) /\ Val(e.text).t > nowDates)
             => HasError("DATE_FUTURE", e.tag, e.text)
        /\ (ConformsToProfile(e.text) /\ Val(e.text).t <= nowDates)
             => /\ ~HasError("DATE_FORMAT", e.tag, e.text)
                /\ ~HasError("DATE_FUTURE", e.tag, e.text)

\* the first occurrence of the name of the j-th metric
FirstOf(ms, j) == CHOOSE f \in 1..j :
  ms[f].name = ms[j].name /\ \A g \in 1..(f - 1) : ms[g].name # ms[j].name

KindOf(m) == GetMetricFormatType(Val(m.text))

\* C7: in the scan of _validate_metrics, a scanned occurrence is reported
\* METRIC_INCONSISTENT exactly when its kind differs from the kind of the
\* first occurrence of its name, and the kind remembered for a name is, and
\* stays, the kind of that first occurrence.
C7_FirstSeenWins ==
  (pc = "metrics") =>
    LET ms == FindAll(doc, "metric") IN
    /\ \A j \in 1..(mi - 1) :
         (KindOf(ms[j]) # KindOf(ms[FirstOf(ms, j)]))
           <=> HasMetricError(merrors, {"METRIC_INCONSISTENT"}, ms[j])
    /\ DOMAIN seen_metrics = {ms[j].name : j \in 1..(mi - 1)}
    /\ \A j \in 1..(mi - 1) :
         seen_metrics[ms[j].name] = {KindOf(ms[FirstOf(ms, j)])}

\* '10%', '5', '5' under one name: both later occurrences are reported
C7_Witness ==
  /\ pc = "metrics" /\ mi = 4
  /\ LET ms == FindAll(doc, "metric") IN
       /\ ms[1].name = ms[2].name /\ ms[2].name = ms[3].name
       /\ ms[1].text = TenPercent /\ ms[2].text = Five /\ ms[3].text = Five
  /\ Len(SelectSeq(merrors, LAMBDA e : e.kind = "METRIC_INCONSISTENT")) = 2

\* C8: a metric value that matches one of the five patterns, at the first
\* occurrence of its name, has no error of any rule.
C8_ValidMetricNoError ==
  (Done /\ Parsed) =>
    \A j \in 1..Len(Metrics) :
      (~IsNone(Metrics[j].text) /\ MatchesAnyPattern(Val(Metrics[j].text))
         /\ FirstOf(Metrics, j) = j)
      => ~HasMetricError(errors,
            {"PERCENTAGE_FORMAT", "METRIC_FORMAT", "METRIC_INCONSISTENT"}, Metrics[j])

\* a number with neither sign, '%' nor unit
BareNumber(text) == ~IsNone(text) /\ Decimal(Val(text))
\* the same, with or without a sign
SignedNumber(text) == ~IsNone(text) /\ \E v \in Unsigned(Val(text)) : Decimal(v)

\* every rule has run and returned
RanToCompletion == Done /\ Parsed /\ nowRetention # 0 /\ ~HasKind("PARSE_ERROR")

PubInstants ==
  {Strptime(PubDates[j].text).t :
     j \in {k \in 1..Len(PubDates) : Strptime(PubDates[k].text).exc = "none"}}

HasItems == \E i \in 1..Len(input.doc) : input.doc[i].item > 0

\* C10: with at least one item, RETENTION_TOO_SHORT is reported when the
\* whole days from the oldest pubDate to now are below MIN_RETENTION_DAYS and
\* not reported when they are not; with no item it is never reported.  (Now
\* is the time the retention rule read; the claim is stated for the calls
\* that reached that rule.)
C10_RetentionRule ==
  (Done /\ Parsed /\ nowRetention # 0) =>
    /\ (HasItems /\ PubInstants # {}
          /\ DaysBetween(nowRetention, MinOf(PubInstants)) < MIN_RETENTION_DAYS)
         => HasKind("RETENTION_TOO_SHORT")
    /\ (HasItems /\ PubInstants # {}
          /\ DaysBetween(nowRetention, MinOf(PubInstants)) >= MIN_RETENTION_DAYS)
         => ~HasKind("RETENTION_TOO_SHORT")
    /\ ~HasItems => ~HasKind("RETENTION_TOO_SHORT")

MaxOf(S) == CHOOSE m \in S : \A x \in S : m >= x

\* C11: a document whose newest pubDate is 30 days old has a
\* RETENTION_TOO_SHORT error, whatever its other pubDates are.
C11_NewestThirtyDays ==
  (Done /\ Parsed /\ PubInstants # {}
     /\ DaysBetween(clock, MaxOf(PubInstants)) = 30)
  => HasKind("RETENTION_TOO_SHORT")

\* every element with this tag has a text
AllHaveText(tag) ==
  \A i \in 1..Len(input.doc) :
    input.doc[i].tag = tag => ~IsNone(input.doc[i].text)

Links == FindAll(input.doc, "link")

\* what the URI rule forbids: a scheme other than http and https, no host,
\* a host without '.', whitespace
LinkViolates(url) ==
  \/ ~(StartsWith(url, HttpPrefix) \/ StartsWith(url, HttpsPrefix))
  \/ Netloc(url) = <<>>
  \/ ~Contains(Netloc(url), ".")
  \/ \E i \in 1..Len(url) : url[i] \in Whitespace

\* C12: every link has a URI_INVALID error exactly when it breaks the URI
\* rule (stated for the documents all of whose links have a text).
C12_UriRule ==
  (Done /\ Parsed /\ AllHaveText("link")) =>
    \A j \in 1..Len(Links) :
      HasError("URI_INVALID", "link", Links[j].text)
        <=> LinkViolates(Val(Links[j].text))

\* a PERCENTAGE_FORMAT error is due for the element (an empty element holds
\* the empty string, which does not match)
PercentageDue(e) ==
  \/ /\ e.tag = "affectedUsers"
     /\ (IsNone(e.text) \/ ~MatchesPercentagePattern(Val(e.text)))
  \/ /\ e.tag = "metric"
     /\ ~IsNone(e.text)
     /\ Contains(Val(e.text), "%")
     /\ ~MatchesPercentagePattern(Val(e.text))

\* C13: every affectedUsers value that does not match the percentage
\* pattern, and every metric value with a '%' that does not match it, has a
\* PERCENTAGE_FORMAT error, and no other value has one (stated for the
\* documents all of whose links have a text).
C13_PercentageRule ==
  (Done /\ Parsed /\ AllHaveText("link")) =>
    /\ \A i \in 1..Len(input.doc) :
         LET e == input.doc[i] IN
         (e.tag \in {"affectedUsers", "metric"} /\ PercentageDue(e))
           => \E k \in 1..Len(errors) :
                /\ errors[k].kind = "PERCENTAGE_FORMAT"
                /\ errors[k].field = e.tag
                /\ errors[k].text = e.text
    /\ \A k \in 1..Len(errors) :
         errors[k].kind = "PERCENTAGE_FORMAT"
           => \E i \in 1..Len(input.doc) :
                LET e == input.doc[i] IN
                /\ e.tag = errors[k].field
                /\ PercentageDue(e)
                /\ e.text = errors[k].text

Categories == FindAll(input.doc, "category")

\* the name of a category: its text without the surrounding whitespace, the
\* empty string for an empty element
CatName(text) == IF IsNone(text) THEN <<>> ELSE Strip(Val(text))

\* C14: for every category name the format check and the vocabulary check
\* are reported independently: CATEGORY_FORMAT exactly when the name does not
\* match the pattern, CATEGORY_NONSTANDARD exactly when it is not in the
\* vocabulary ('ranking algo' has both, 'Ranking Algorithm' neither); stated
\* for the documents whose links, affectedUsers and metrics all have a text.
C14_CategoryRule ==
  (Done /\ Parsed /\ AllHaveText("link") /\ AllHaveText("affectedUsers")
     /\ AllHaveText("metric")) =>
    \A j \in 1..Len(Categories) :
        LET cat_name == CatName(Categories[j].text) IN
        /\ HasError("CATEGORY_FORMAT", "category", Str(cat_name))
             <=> ~MatchesCategoryFormat(cat_name)
        /\ HasError("CATEGORY_NONSTANDARD", "category", Str(cat_name))
             <=> cat_name \notin STANDARD_CATEGORIES

Languages == FindAll(input.doc, "language")

\* C15: LANGUAGE_UNSUPPORTED is reported exactly when the channel's language
\* code is not in the allowed set; a code in another case, an empty code and
\* a missing code are not in it (here even when every rule ran).
C15_LanguageRule ==
  (Done /\ Parsed /\ ~HasKind("PARSE_ERROR")) =>
    (HasKind("LANGUAGE_UNSUPPORTED")
       <=> ~(Languages # <<>> /\ LanguageAllowed(Languages[1].text)))

LastBuilds == FindAll(input.doc, "lastBuildDate")

\* a schema-valid document of no item, with a well-formed http(s) channel
\* link, an allowed language and a lastBuildDate in the exact profile
Conformant ==
  /\ Parsed /\ input.schemaErrors = 0 /\ ~HasItems
  /\ Links # <<>>
  /\ \A j \in 1..Len(Links) :
       ~IsNone(Links[j].text) /\ ~LinkViolates(Val(Links[j].text))
  /\ Languages # <<>> /\ LanguageAllowed(Languages[1].text)
  /\ LastBuilds # <<>> /\ ~IsNone(LastBuilds[1].text)
  /\ ConformsToProfile(LastBuilds[1].text)

\* C16: a conformant document whose lastBuildDate is not later than now (the
\* time the date rule read), so also one equal to now, gets the empty list.
C16_ConformantNoErrors ==
  (Done /\ Conformant /\ Val(LastBuilds[1].text).t <= nowDates) =>
    errors = <<>> /\ raised = "none"

C16_Witness ==
  /\ Done /\ Conformant /\ nowRetention # 0
  /\ Val(LastBuilds[1].text).t = nowDates
  /\ errors = <<>>

\* the (kind, location) pairs of an error list
ErrorSet(errs) == {<<errs[i].kind, errs[i].field>> : i \in 1..Len(errs)}

\* C17: two calls on the same bytes return the same set of (kind, location)
\* errors, whenever they are made.
C17_Deterministic ==
  (call = 2 /\ Done) => ErrorSet(errors) = ErrorSet(firstErrors)

\* compare_feeds has returned or raised
DiffDone == dpc = "done"
BothParse == feed1.wellFormed /\ feed2.wellFormed

\* the links of the items of a document
ItemLinks(feed) ==
  {feed.doc[i].text :
     i \in {k \in 1..Len(feed.doc) : feed.doc[k].tag = "link" /\ feed.doc[k].item > 0}}

\* the same feed twice (both files hold the same bytes)
SameFeed ==
  /\ feed1.wellFormed = feed2.wellFormed
  /\ feed1.namespaced = feed2.namespaced
  /\ Len(feed1.doc) = Len(feed2.doc)
  /\ \A i \in 1..Len(feed1.doc) :
       /\ feed1.doc[i].tag = feed2.doc[i].tag
       /\ feed1.doc[i].item = feed2.doc[i].item
       /\ feed1.doc[i].text = feed2.doc[i].text

\* C18: comparing a parseable document with itself returns a diff whose
\* added, removed and modified lists are empty.
C18_SelfDiffEmpty ==
  (DiffDone /\ SameFeed /\ feed1.wellFormed) =>
    /\ draised = "none"
    /\ added = <<>> /\ removed = <<>> /\ modified = <<>>

\* C19: when compare_feeds returns, the links of the two documents fall in
\* three disjoint classes that cover them, each link counted once: one added
\* entry for every link only in the second document, one removed entry for
\* every link only in the first, and the modified entries among the links
\* of both.
C19_Partition ==
  (DiffDone /\ BothParse /\ draised = "none") =>
    /\ Len(added) = Cardinality(ItemLinks(feed2) \ ItemLinks(feed1))
    /\ Len(removed) = Cardinality(ItemLinks(feed1) \ ItemLinks(feed2))
    /\ Len(modified) <= Cardinality(ItemLinks(feed1) \cap ItemLinks(feed2))

\* no two items of the document have the same link
UniqueLinks(feed) ==
  Cardinality(ItemLinks(feed)) = Len(ItemNumbers(feed.doc, {}))

\* the titles of the items of b whose link is not a link of a, in b's order
RECURSIVE TitlesOnlyIn(_, _, _)
TitlesOnlyIn(b, a, ns) ==
  IF ns = <<>> THEN <<>>
  ELSE (IF Child(b.doc, Head(ns), "link")[1].text \notin ItemLinks(a)
        THEN <<Child(b.doc, Head(ns), "title")[1].text>> ELSE <<>>)
       \o TitlesOnlyIn(b, a, Tail(ns))

\* C20: when compare_feeds returns, added is the titles of the items of the
\* second document whose link is not in the first, and removed the titles of
\* the items of the first whose link is not in the second (for documents
\* whose items have distinct links).
C20_AddedRemoved ==
  (DiffDone /\ BothParse /\ draised = "none"
     /\ UniqueLinks(feed1) /\ UniqueLinks(feed2)) =>
    /\ added = TitlesOnlyIn(feed2, feed1, ItemNumbers(feed2.doc, {}))
    /\ removed = TitlesOnlyIn(feed1, feed2, ItemNumbers(feed1.doc, {}))

\* the fields of the entry m of modified are those in which a and b differ,
\* each with a's value as old, b's value as new and the line diff of the two
ChangesOf(a, b, m) ==
  /\ m.title = b.title
  /\ {m.changes[c].field : c \in 1..Len(m.changes)}
       = {ItemFields[f] : f \in {g \in 1..Len(ItemFields) :
                                   a[ItemFields[g]] # b[ItemFields[g]]}}
  /\ \A c \in 1..Len(m.changes) :
       /\ m.changes[c].old = a[m.changes[c].field]
       /\ m.changes[c].new = b[m.changes[c].field]
       /\ m.changes[c].diff = NDiff(a[m.changes[c].field], b[m.changes[c].field])

\* every item of the document has its link, title, description and pubDate
\* and the document declares no namespace
PlainItems(feed) ==
  /\ ~feed.namespaced
  /\ UniqueLinks(feed)
  /\ \A i \in 1..Len(ItemNumbers(feed.doc, {})) :
       \A tag \in {"link", "title", "description", "pubDate"} :
         Child(feed.doc, ItemNumbers(feed.doc, {})[i], tag) # <<>>

\* C21: for every link of both documents there is a modified entry exactly
\* when title, description or pubDate differ, and its changes are exactly
\* the differing fields with the first document's value as old, the second's
\* as new and their line diff; an empty value is a value like any other.
C21_ModifiedEntries ==
  (DiffDone /\ BothParse /\ PlainItems(feed1) /\ PlainItems(feed2)) =>
    LET its1 == ExtractItems(feed1).items
        its2 == ExtractItems(feed2).items
    IN /\ draised = "none"
       /\ \A k \in 1..Len(its2) :
            HasKey(its1, its2[k].id) =>
              (ItemDiffers(Lookup(its1, its2[k].id), its2[k])
                 <=> \E m \in 1..Len(modified) :
                       ChangesOf(Lookup(its1, its2[k].id), its2[k], modified[m]))

\* C22: when one of the two files cannot be parsed, compare_feeds ends by
\* raising the parser's error: no item is extracted from either file and no
\* added, removed or modified list is computed or returned.
C22_UnparsableFails ==
  ~BothParse =>
    /\ dpc \in {"parse1", "parse2", "done"}
    /\ items1 = <<>> /\ items2 = <<>>
    /\ added = <<>> /\ removed = <<>> /\ modified = <<>>
    /\ DiffDone => draised = "ParseError"

\* the first file parses and has items, the second is no XML
C22_Witness ==
  /\ DiffDone
  /\ feed1.wellFormed /\ ~feed1.namespaced /\ ItemLinks(feed1) # {}
  /\ ~feed2.wellFormed
  /\ draised = "ParseError"

\* C23: when the schema file is missing, is no XML or is no schema,
\* ATFValidator(schema_path) raises ValueError: self.schema is never set and
\* no thread ever gets an object to call validate_file on.
C23_ConstructionFailsFast ==
  schema_file # "valid" =>
    /\ cpc \in {"new", "failed"}
    /\ schema = "unset"
    /\ pc = "idle" /\ other.pc = "idle"
    /\ cpc = "failed" => craised = "ValueError"

\* the schema file is there and is XML, but no schema compiles from it
C23_Witness ==
  /\ schema_file = "invalid"
  /\ cpc = "failed"
  /\ craised = "ValueError"

\* _validate_metrics run from its first line to its return
RECURSIVE MetricsRule(_, _, _, _)
MetricsRule(ms, k, seen, errs) ==
  IF k > Len(ms) THEN Ok(errs)
  ELSE IF IsNone(ms[k].text) THEN Raise("TypeError")
  ELSE MetricsRule(ms, k + 1,
         SeenAfter(seen, ms[k].name, GetMetricFormatType(Val(ms[k].text))),
         errs \o FormatErrors(ms[k]) \o ConsistencyErrors(seen, ms[k]))

\* errors.extend(rule(doc)) after what ran before it, unless that raised
Then(r, q) ==
  IF r.exc # "none" THEN r
  ELSE [errs |-> r.errs \o q.errs, exc |-> q.exc]

\* what the caller gets: the list, or the exception no handler caught
Returned(r) ==
  IF r.exc = "none" THEN [errors |-> r.errs, raised |-> "none"]
  ELSE IF OuterCatches(r.exc)
       THEN [errors |-> Append(r.errs, ParseError(r.exc)), raised |-> "none"]
       ELSE [errors |-> r.errs, raised |-> r.exc]

\* validate_file run alone on file, with nd and nr the times that
\* _validate_dates and _validate_retention read
ValidateAlone(file, nd, nr) ==
  IF ~file.exists THEN Returned(Raise("FileNotFoundError"))
  ELSE IF SizeExceeded(file.size) THEN Returned(Ok(<<SizeError>>))
  ELSE IF ParseOutcome(file) # "none" THEN Returned(Raise(ParseOutcome(file)))
  ELSE Returned(
    Then(Then(Then(Then(Then(Then(Then(
      Ok([k \in 1..file.schemaErrors |-> SchemaError]),
      ValidateDatesRule(file.doc, nd)),
      ValidateUrisRule(file.doc)),
      ValidatePercentagesRule(file.doc)),
      MetricsRule(FindAll(file.doc, "metric"), 1, <<>>, <<>>)),
      ValidateCategoriesRule(file.doc)),
      ValidateLanguageRule(file.doc)),
      ValidateRetentionRule(file.doc, nr)))

\* the kind and place of every error of a list, in the list's order
KindsOf(errs) == [i \in 1..Len(errs) |-> <<errs[i].kind, errs[i].field>>]

\* a finished call has the result of the same call run alone, and nothing is
\* left of its metric accumulator
AsAlone(c) ==
  c.pc = "done" =>
    /\ KindsOf(c.errors) = KindsOf(ValidateAlone(c.input, c.nowDates, c.nowRetention).errors)
    /\ c.raised = ValidateAlone(c.input, c.nowDates, c.nowRetention).raised
    /\ c.seen_metrics = <<>> /\ c.merrors = <<>>

\* C24: a validate_file call leaves the validator as it was (self.schema
\* stays the compiled schema), nothing of the metric accumulator is left
\* when a call is over, and however the steps of two calls on one validator
\* interleave, each call returns what it returns when run alone.
C24_CallsDoNotInterfere ==
  cpc = "built" =>
    /\ schema = "compiled"
    /\ AsAlone(ThisCall)
    /\ AsAlone(other)

\* a call has returned a METRIC_FORMAT error while the other thread's call
\* on a file that names the same metric is in its metric loop
C24_Witness ==
  /\ cpc = "built"
  /\ pc = "done" /\ raised = "none"
  /\ \E i \in 1..Len(errors) : errors[i].kind = "METRIC_FORMAT"
  /\ other.pc = "metrics" /\ other.mi = 2
  /\ DOMAIN other.seen_metrics # {}

\* the occurrences of the name of the j-th metric among the first n metrics
Occurrences(ms, j, n) == {g \in 1..n : ms[g].name = ms[j].name}

\* C25: in the scan of _validate_metrics the kind remembered for a name is
\* never that of a value matching no pattern; a name whose first value
\* matches no pattern and whose later values are all of one valid kind has a
\* METRIC_FORMAT error for the first value and no METRIC_INCONSISTENT error.
C25_FirstValidRemembered ==
  (pc = "metrics") =>
    LET ms == FindAll(doc, "metric") IN
    /\ \A n \in DOMAIN seen_metrics : "unknown" \notin seen_metrics[n]
    /\ \A j \in 1..(mi - 1) :
         (/\ FirstOf(ms, j) = j
          /\ ~MatchesAnyPattern(Val(ms[j].text))
          /\ \A g \in Occurrences(ms, j, mi - 1) \ {j} :
               MatchesAnyPattern(Val(ms[g].text))
          /\ \A g, h \in Occurrences(ms, j, mi - 1) \ {j} :
               KindOf(ms[g]) = KindOf(ms[h]))
         => /\ HasMetricError(merrors, {"METRIC_FORMAT"}, ms[j])
            /\ \A g \in Occurrences(ms, j, mi - 1) :
                 ~HasMetricError(merrors, {"METRIC_INCONSISTENT"}, ms[g])

\* C26: in the scan of _validate_metrics every scanned value matching no
\* pattern has a METRIC_FORMAT error; it has a METRIC_INCONSISTENT error as
\* well when the first value of its name matched a pattern, and none when it
\* is itself the first value of its name.
C26_IndependentChecks ==
  (pc = "metrics") =>
    LET ms == FindAll(doc, "metric") IN
    \A j \in 1..(mi - 1) :
      ~MatchesAnyPattern(Val(ms[j].text)) =>
        /\ HasMetricError(merrors, {"METRIC_FORMAT"}, ms[j])
        /\ (FirstOf(ms, j) # j /\ MatchesAnyPattern(Val(ms[FirstOf(ms, j)].text)))
             => HasMetricError(merrors, {"METRIC_INCONSISTENT"}, ms[j])
        /\ FirstOf(ms, j) = j
             => ~HasMetricError(merrors, {"METRIC_INCONSISTENT"}, ms[j])

\* '5' then 'yes' under one name: 'yes' has both errors
C26_Witness ==
  /\ pc = "metrics" /\ mi = 3
  /\ LET ms == FindAll(doc, "metric") IN
       /\ ms[1].name = ms[2].name
       /\ ms[1].text = Five /\ ms[2].text = Yes
       /\ HasMetricError(merrors, {"METRIC_FORMAT"}, ms[2])
       /\ HasMetricError(merrors, {"METRIC_INCONSISTENT"}, ms[2])
       /\ Len(merrors) = 2

\* C27: in one validate_file call the Date Rule and the Retention Rule judge
\* the document against the same time.
C27_OneNow ==
  (nowDates # 0 /\ nowRetention # 0) => nowDates = nowRetention

\* the links of the <item> elements that the validator's rules look at:
\* findall(".//{*}link") finds the element in any namespace
ExaminedLinks(feed) ==
  {FindAll(feed.doc, "link")[i].text :
     i \in {k \in 1..Len(FindAll(feed.doc, "link")) :
              FindAll(feed.doc, "link")[k].item > 0}}

\* the keys of the dict of _extract_items
Keys(items) == {items[k].id : k \in 1..Len(items)}

\* C28: for every parseable document the links in the differ's identity map
\* are the links of the items that the validator's rules examine, also when
\* the document is declared in the ATF namespace.
C28_SameItems ==
  (DiffDone /\ BothParse /\ draised = "none") =>
    /\ Keys(items1) = ExaminedLinks(feed1)
    /\ Keys(items2) = ExaminedLinks(feed2)

\* compare_feeds(a, b) run from its first line to its return, for two files
\* that parse
CompareFeeds(a, b) ==
  LET x == ExtractItems(a)
      y == ExtractItems(b)
      r == AddedLoop(x.items, y.items, 1, <<>>, <<>>)
  IN IF x.exc # "none" \/ y.exc # "none"
     THEN [exc |-> "AttributeError", added |-> <<>>, removed |-> <<>>, modified |-> <<>>]
     ELSE IF r.exc # "none"
          THEN [exc |-> r.exc, added |-> <<>>, removed |-> <<>>, modified |-> <<>>]
          ELSE [exc |-> "none", added |-> r.added,
                removed |-> RemovedLoop(x.items, y.items, 1, <<>>),
                modified |-> r.modified]

\* the changes of m and n name the same fields, old and new swapped
Mirrored(m, n) ==
  /\ Len(m.changes) = Len(n.changes)
  /\ \A c \in 1..Len(m.changes) :
       /\ m.changes[c].field = n.changes[c].field
       /\ m.changes[c].old = n.changes[c].new
       /\ m.changes[c].new = n.changes[c].old

\* C29: for two documents that parse, compare_feeds(B, A) returns exactly
\* when compare_feeds(A, B) does; its removed list is the added list of
\* compare_feeds(A, B), its added list the removed list, and its modified
\* entries are those of compare_feeds(A, B) with old and new swapped.
C29_Antisymmetric ==
  (DiffDone /\ BothParse) =>
    LET r == CompareFeeds(feed2, feed1) IN
    /\ draised = r.exc
    /\ added = r.removed
    /\ removed = r.added
    /\ Len(modified) = Len(r.modified)
    /\ \A i \in 1..Len(modified) :
         \E j \in 1..Len(r.modified) : Mirrored(modified[i], r.modified[j])
    /\ \A j \in 1..Len(r.modified) :
         \E i \in 1..Len(modified) : Mirrored(modified[i], r.modified[j])

\* one link added, one link modified
C29_Witness ==
  /\ DiffDone /\ draised = "none"
  /\ Len(added) = 1 /\ removed = <<>> /\ Len(modified) = 1
  /\ CompareFeeds(feed2, feed1).added = <<>>
  /\ Len(CompareFeeds(feed2, feed1).removed) = 1

\* the place of an error's rule in validate_file; the size guard's error
\* stands alone and the handler's PARSE_ERROR comes after all others
RuleRank(kind) ==
  CASE kind = "SIZE_EXCEEDED" -> 0
    [] kind = "SCHEMA" -> 1
    [] kind \in {"DATE_FORMAT", "DATE_FUTURE", "DATE_VALIDATION_ERROR"} -> 2
    [] kind = "URI_INVALID" -> 3
    [] kind = "PERCENTAGE_FORMAT" -> 4
    [] kind \in {"METRIC_FORMAT", "METRIC_INCONSISTENT"} -> 5
    [] kind \in {"CATEGORY_NONSTANDARD", "CATEGORY_FORMAT"} -> 6
    [] kind = "LANGUAGE_UNSUPPORTED" -> 7
    [] kind = "RETENTION_TOO_SHORT" -> 8
    [] OTHER -> 9

RuleOrdered(errs) ==
  \A i, j \in 1..Len(errs) : i < j => RuleRank(errs[i].kind) <= RuleRank(errs[j].kind)

\* the element and the value of every error of a list
Pairs(errs) == [i \in 1..Len(errs) |-> <<errs[i].field, errs[i].text>>]

\* the errors of the given kinds, in the order they have in the list
OfKinds(errs, kinds) == Pairs(SelectSeq(errs, LAMBDA e : e.kind \in kinds))

\* what each element of a document is to be reported for, by rule
PercentDue(e) == IF PercentageDue(e) THEN <<<<e.tag, e.text>>>> ELSE <<>>
UriDue(e) ==
  IF e.tag = "link" /\ ~IsNone(e.text) THEN Pairs(CheckUri(e.text)) ELSE <<>>
FormatDue(e) ==
  IF e.tag = "metric" /\ ~IsNone(e.text) THEN Pairs(FormatErrors(e)) ELSE <<>>
CategoryDue(e) ==
  IF e.tag = "category" /\ ~IsNone(e.text) THEN Pairs(CheckCategory(e.text)) ELSE <<>>
DateDue(e) ==
  IF e.tag \in {"lastBuildDate", "pubDate"} /\ ~IsNone(e.text)
  THEN Pairs(CheckDate(e.tag, e.text, nowDates)) ELSE <<>>

\* a rule that stops at an element it cannot read reports the first ones only
IsPrefix(a, b) == Len(a) <= Len(b) /\ \A i \in 1..Len(a) : a[i] = b[i]

\* the reports due for the elements of d, in document order
InDocumentOrder(d, Due(_)) == Flatten([i \in 1..Len(d) |-> Due(d[i])])

\* C30, as claimed: when every rule ran, the errors come rule after rule in
\* the order of validate_file, and the errors of one rule come in the
\* document order of the elements they are about.
C30_DocumentOrder ==
  RanToCompletion =>
    /\ RuleOrdered(errors)
    /\ IsPrefix(OfKinds(errors, {"DATE_FORMAT", "DATE_FUTURE"}),
                InDocumentOrder(doc, DateDue))
    /\ OfKinds(errors, {"URI_INVALID"}) = InDocumentOrder(doc, UriDue)
    /\ OfKinds(errors, {"PERCENTAGE_FORMAT"}) = InDocumentOrder(doc, PercentDue)
    /\ OfKinds(errors, {"METRIC_FORMAT"}) = InDocumentOrder(doc, FormatDue)
    /\ OfKinds(errors, {"CATEGORY_NONSTANDARD", "CATEGORY_FORMAT"})
         = InDocumentOrder(doc, CategoryDue)

\* C30, amended: the errors come rule after rule in the order of
\* validate_file, with the handler's PARSE_ERROR last; the errors of one
\* rule come in the order of the rule's scans, each scan in document order:
\* the percentage rule reports every affectedUsers value before any metric.
C30_ScanOrder ==
  /\ RuleOrdered(errors)
  /\ IsPrefix(OfKinds(errors, {"DATE_FORMAT", "DATE_FUTURE"}),
              InDocumentOrder(doc, DateDue))
  /\ OfKinds(errors, {"URI_INVALID"}) \in {<<>>, InDocumentOrder(doc, UriDue)}
  /\ OfKinds(errors, {"PERCENTAGE_FORMAT"})
       \in {<<>>, InDocumentOrder(FindAll(doc, "affectedUsers"), PercentDue)
                   \o InDocumentOrder(FindAll(doc, "metric"), PercentDue)}
  /\ OfKinds(errors, {"METRIC_FORMAT"}) \in {<<>>, InDocumentOrder(doc, FormatDue)}
  /\ OfKinds(errors, {"CATEGORY_NONSTANDARD", "CATEGORY_FORMAT"})
       \in {<<>>, InDocumentOrder(doc, CategoryDue)}

\* the metric of the first item and the affectedUsers value of the second
\* are both reported, the second item's value first
C30_Witness ==
  /\ RanToCompletion
  /\ OfKinds(errors, {"PERCENTAGE_FORMAT"})
       = << <<"affectedUsers", Five>>, <<"metric", SignedPercent>> >>
  /\ InDocumentOrder(doc, PercentDue)
       = << <<"metric", SignedPercent>>, <<"affectedUsers", Five>> >>

====
